---- MODULE Spec2Model ----
(***************************************************************************)
(* Model of the NDSP (audio) service binding of ctru-rs:                   *)
(* ctru-rs/src/services/ndsp/mod.rs.                                       *)
(*                                                                         *)
(* Ndsp handles own a service reference (counted in NDSP_ACTIVE under a    *)
(* mutex) and 24 exclusivity flags; Channel handles borrow one flag;       *)
(* WaveInfo buffers are queued onto the hardware queue of a channel and    *)
(* consumed asynchronously by the DSP.                                     *)
(***************************************************************************)
EXTENDS Integers, Sequences, FiniteSets, TLC

\* ------------------------------------------------------------------------
\* Program constants
\* ------------------------------------------------------------------------
NUMBER_OF_CHANNELS == 24

U8_MAX == 255

\* ------------------------------------------------------------------------
\* Bounds of the model
\* ------------------------------------------------------------------------
\* number of Ndsp handle slots (each may be initialised and dropped again)
MaxNdsp == 2

\* number of WaveInfo buffers
MaxWaves == 3

\* ------------------------------------------------------------------------
\* Sets
\* ------------------------------------------------------------------------
Handles == 1..MaxNdsp

Waves == 1..MaxWaves

ChannelIds == 0..(NUMBER_OF_CHANNELS - 1)

\* the channel IDs the modelled client passes to Ndsp::channel: the two ends
\* of the valid range and the two ends of the invalid u8 range
IdInputs == {0, NUMBER_OF_CHANNELS - 1, NUMBER_OF_CHANNELS, U8_MAX}

ValidInputs == IdInputs \cap ChannelIds

WaveStatus == {"Free", "Queued", "Playing", "Done"}

VARIABLES
    NDSP_ACTIVE,      \* the owner count inside the static Mutex<usize>
    mutex,            \* holder of the NDSP_ACTIVE mutex: 0 when free, else a handle
    native,           \* state of the native audio service (ndspInit / ndspExit)
    pc,               \* per Ndsp handle slot: position in its life cycle
    channel_flags,    \* per Ndsp handle: the IDs whose RefCell<()> is mutably borrowed
    channels,         \* live Channel handles, as <<ndsp handle, id>>
    leaked,           \* Channel handles forgotten without running their destructor
    hwQueue,          \* per hardware channel: the queue of wave buffers of the DSP
    wave,             \* per WaveInfo: alive, raw status, played_on_channel
    ret,              \* the last operation observed and what it returned
    outputMode,       \* the global output mode of the native mixer
    mix,              \* per hardware channel: the twelve gains of its volume mix
    recording,        \* whether the history of Channel drops is being recorded
    droppedIds        \* history: the IDs for which a Channel handle was dropped

vars == <<NDSP_ACTIVE, mutex, native, pc, channel_flags, channels, leaked,
          hwQueue, wave, ret, outputMode, mix, recording, droppedIds>>

svcVars == <<NDSP_ACTIVE, mutex, native, pc>>

chanVars == <<channel_flags, channels, leaked>>

dspVars == <<hwQueue, wave>>

histVars == <<recording, droppedIds>>

OutputModes == {"Mono", "Stereo", "Surround"}

\* the mix of a channel after ndspChnReset: front left and front right at 1
DefaultMix == <<1, 1, 0, 0, 0, 0, 0, 0, 0, 0, 0, 0>>

\* twelve zero gains
ZeroMix == <<0, 0, 0, 0, 0, 0, 0, 0, 0, 0, 0, 0>>

\* the mixes the modelled client passes to Channel::set_mix
MixInputs == {ZeroMix}

\* ------------------------------------------------------------------------
\* Helpers
\* ------------------------------------------------------------------------
Range(s) == {s[i] : i \in 1..Len(s)}

Min(S) == CHOOSE x \in S : \A y \in S : x <= y

Result(op, h, id, w, res, err) ==
    [op |-> op, h |-> h, id |-> id, w |-> w, res |-> res, err |-> err]

\* ------------------------------------------------------------------------
\* The native service (libctru), as the binding uses it
\* ------------------------------------------------------------------------
\* ndspInit(): the service becomes active; `ok` records that init and exit
\* calls have alternated so far, starting with init
ndspInit(n) ==
    [active |-> TRUE, last |-> "init", ok |-> n.ok /\ n.last # "init"]

ndspExit(n) ==
    [active |-> FALSE, last |-> "exit", ok |-> n.ok /\ n.last = "init"]

\* ndspChnWaveBufClear(id): playback stops, every buffer of the queue is
\* discarded
ndspChnWaveBufClear(d, id) ==
    [hwQueue |-> [d.hwQueue EXCEPT ![id] = <<>>],
     wave    |-> [w \in Waves |->
                    IF w \in Range(d.hwQueue[id])
                    THEN [d.wave[w] EXCEPT !.status = "Done"]
                    ELSE d.wave[w]]]

\* ndspChnReset(id): clear_queue plus parameter reset
ndspChnReset(d, id) == ndspChnWaveBufClear(d, id)

\* ndspChnWaveBufAdd(id, buf): playback starts on buf if the queue is empty,
\* otherwise buf is appended behind the queued buffers
ndspChnWaveBufAdd(d, id, w) ==
    [hwQueue |-> [d.hwQueue EXCEPT ![id] = Append(@, w)],
     wave    |-> [d.wave EXCEPT ![w].status =
                    IF d.hwQueue[id] = <<>> THEN "Playing" ELSE "Queued"]]

\* the DSP finishes the buffer at the head of a queue and starts the next
dspFinishHead(d, id) ==
    LET q    == d.hwQueue[id]
        rest == Tail(q)
        w1   == [d.wave EXCEPT ![Head(q)].status = "Done"]
    IN  [hwQueue |-> [d.hwQueue EXCEPT ![id] = rest],
         wave    |-> IF rest = <<>> THEN w1
                     ELSE [w1 EXCEPT ![Head(rest)].status = "Playing"]]

\* the output mode ndspInit() leaves the mixer in
ndspInitOutputMode == "Stereo"

\* ndspSetOutputMode(mode)
ndspSetOutputMode(mode) == mode

\* ndspChnSetMix(id, mix): only the gains of channel id change
ndspChnSetMix(m, id, gains) == [m EXCEPT ![id] = gains]

\* ndspChnReset(id), on the mix: the parameters go back to their defaults
ndspChnResetMix(m, id) == [m EXCEPT ![id] = DefaultMix]

Dsp == [hwQueue |-> hwQueue, wave |-> wave]

SetDsp(d) == hwQueue' = d.hwQueue /\ wave' = d.wave

\* ------------------------------------------------------------------------
\* ServiceReference: the counted activation guard
\* ------------------------------------------------------------------------
\* ServiceReference::new(counter, exclusive, start, close): fails when
\* exclusive and the counter is nonzero; runs start only on the 0 -> 1
\* transition, and a failure of start leaves the counter unchanged
ServiceReferenceNew(counter, exclusive, startOk) ==
    IF exclusive /\ counter # 0
    THEN [res |-> "ServiceAlreadyActive", counter |-> counter, start |-> FALSE]
    ELSE IF counter = 0
         THEN IF startOk
              THEN [res |-> "Ok", counter |-> counter + 1, start |-> TRUE]
              ELSE [res |-> "InitFailed", counter |-> counter, start |-> FALSE]
         ELSE [res |-> "Ok", counter |-> counter + 1, start |-> FALSE]

\* Drop for ServiceReference: decrements, runs close only on the 1 -> 0
\* transition
ServiceReferenceDrop(counter) ==
    [counter |-> counter - 1, close |-> (counter - 1 = 0)]

\* ------------------------------------------------------------------------
\* Ndsp
\* ------------------------------------------------------------------------
\* the `exclusive` argument Ndsp::init passes to ServiceReference::new
NdspExclusive == FALSE

\* the start closure of Ndsp::init: ResultCode(ndspInit())?
NdspStart(n) == ndspInit(n)

\* a close closure that forgets to call ndspExit()
NdspClose_noExit(n) == n

\* the close closure of Ndsp::init: ndspExit()
NdspClose(n) == ndspExit(n)

\* Ndsp::channel with one exclusivity flag shared by all the IDs
channel_sharedFlag(flags, id) ==
    IF id < NUMBER_OF_CHANNELS
    THEN IF flags = {}
         THEN [res |-> "Ok", err |-> <<>>, flags |-> flags \cup {id}]
         ELSE [res |-> "ChannelAlreadyInUse", err |-> <<id>>, flags |-> flags]
    ELSE [res |-> "InvalidChannel", err |-> <<id>>, flags |-> flags]

\* Ndsp::channel without the try_borrow_mut failure branch
channel_noBorrowCheck(flags, id) ==
    IF id < NUMBER_OF_CHANNELS
    THEN [res |-> "Ok", err |-> <<>>, flags |-> flags \cup {id}]
    ELSE [res |-> "InvalidChannel", err |-> <<id>>, flags |-> flags]

\* Ndsp::channel with the bound of the flag array off by one
channel_offByOne(flags, id) ==
    IF id <= NUMBER_OF_CHANNELS
    THEN IF id \notin flags
         THEN [res |-> "Ok", err |-> <<>>, flags |-> flags \cup {id}]
         ELSE [res |-> "ChannelAlreadyInUse", err |-> <<id>>, flags |-> flags]
    ELSE [res |-> "InvalidChannel", err |-> <<id>>, flags |-> flags]

\* Ndsp::channel(id) on the flag array `flags` (the set of borrowed slots)
channel(flags, id) ==
    IF id < NUMBER_OF_CHANNELS
    THEN IF id \notin flags
         THEN [res |-> "Ok", err |-> <<>>, flags |-> flags \cup {id}]
         ELSE [res |-> "ChannelAlreadyInUse", err |-> <<id>>, flags |-> flags]
    ELSE [res |-> "InvalidChannel", err |-> <<id>>, flags |-> flags]

\* WaveInfo::set_channel(id)
set_channel(d, w, id) ==
    [d EXCEPT !.wave[w].played_on_channel = {id}]

\* a clear_queue that leaves the hardware queue as it is
clear_queue_noop(d, id) == d

\* Channel::clear_queue on channel id
clear_queue(d, id) == ndspChnWaveBufClear(d, id)

\* Channel::queue_wave that does not record the channel in the buffer
queue_wave_noStamp(d, id, w) ==
    IF d.wave[w].status \in {"Playing", "Queued"}
    THEN [res |-> "WaveBusy", err |-> <<id>>, dsp |-> d]
    ELSE [res |-> "Ok", err |-> <<>>, dsp |-> ndspChnWaveBufAdd(d, id, w)]

\* Channel::queue_wave without the status check
queue_wave_unchecked(d, id, w) ==
    [res |-> "Ok", err |-> <<>>,
     dsp |-> ndspChnWaveBufAdd(set_channel(d, w, id), id, w)]

\* Channel::queue_wave whose status check misses the Queued arm
queue_wave_playingOnly(d, id, w) ==
    IF d.wave[w].status \in {"Playing"}
    THEN [res |-> "WaveBusy", err |-> <<id>>, dsp |-> d]
    ELSE [res |-> "Ok", err |-> <<>>,
          dsp |-> ndspChnWaveBufAdd(set_channel(d, w, id), id, w)]

\* Channel::queue_wave whose status check also rejects Done buffers
queue_wave_rejectsDone(d, id, w) ==
    IF d.wave[w].status \in {"Playing", "Queued", "Done"}
    THEN [res |-> "WaveBusy", err |-> <<id>>, dsp |-> d]
    ELSE [res |-> "Ok", err |-> <<>>,
          dsp |-> ndspChnWaveBufAdd(set_channel(d, w, id), id, w)]

\* Channel::queue_wave(wave) on channel id
queue_wave(d, id, w) ==
    IF d.wave[w].status \in {"Playing", "Queued"}
    THEN [res |-> "WaveBusy", err |-> <<id>>, dsp |-> d]
    ELSE [res |-> "Ok", err |-> <<>>,
          dsp |-> ndspChnWaveBufAdd(set_channel(d, w, id), id, w)]

\* Drop for Channel: self.reset(), then the RefMut releases the flag
ChannelDropDsp(d, id) == ndspChnReset(d, id)

\* a Channel drop that keeps the flag borrowed
ChannelDropFlags_keep(flags, id) == flags

ChannelDropFlags(flags, id) == flags \ {id}

\* Drop for Ndsp: for i in 0..24 { self.channel(i).unwrap().clear_queue() };
\* the temporary Channel is dropped at the end of each iteration; unwrap
\* panics at the first flag that is still borrowed and the loop ends there
NdspDropLoop(d0, flags0) ==
    LET iter[i \in 0..NUMBER_OF_CHANNELS] ==
          IF i = 0
          THEN [dsp |-> d0, flags |-> flags0, panicked |-> FALSE]
          ELSE LET p == iter[i - 1]
                   c == channel(p.flags, i - 1)
               IN  IF p.panicked THEN p
                   ELSE IF c.res # "Ok"
                        THEN [p EXCEPT !.panicked = TRUE]
                        ELSE [dsp |-> ChannelDropDsp(clear_queue(p.dsp, i - 1), i - 1),
                              flags |-> ChannelDropFlags(c.flags, i - 1),
                              panicked |-> FALSE]
    IN  iter[NUMBER_OF_CHANNELS]

\* Drop for Ndsp, on the mixes: every channel the loop reaches before it
\* panics is reset by the drop of its temporary Channel
NdspDropMix(m, flags) ==
    [c \in ChannelIds |->
        IF \A i \in 0..c : i \notin flags THEN ndspChnResetMix(m, c)[c] ELSE m[c]]

\* Ndsp::set_output_mode(mode)
set_output_mode(mode) == ndspSetOutputMode(mode)

\* Channel::set_mix(mix) on channel id
set_mix(m, id, gains) == ndspChnSetMix(m, id, gains)

\* Drop for WaveInfo: a buffer that is still Queued or Playing clears the
\* whole queue of the channel it was played on before its memory goes away
WaveInfoDropDsp(d, w) ==
    LET cleared ==
          IF d.wave[w].status \in {"Queued", "Playing"}
          THEN ndspChnWaveBufClear(d, Min(d.wave[w].played_on_channel))
          ELSE d
    IN  [cleared EXCEPT !.wave[w].alive = FALSE]

\* ------------------------------------------------------------------------
\* Initial state: no Ndsp handle, service inactive, every WaveInfo freshly
\* constructed
\* ------------------------------------------------------------------------
Init ==
    /\ NDSP_ACTIVE = 0
    /\ mutex = 0
    /\ native = [active |-> FALSE, last |-> "none", ok |-> TRUE]
    /\ pc = [h \in Handles |-> "none"]
    /\ channel_flags = [h \in Handles |-> {}]
    /\ channels = {}
    /\ leaked = {}
    /\ hwQueue = [c \in ChannelIds |-> <<>>]
    /\ wave = [w \in Waves |->
                 [alive |-> TRUE, status |-> "Free", played_on_channel |-> {}]]
    /\ ret = Result("none", 0, 0, 0, "Ok", <<>>)
    /\ outputMode = ndspInitOutputMode
    /\ mix = [c \in ChannelIds |-> DefaultMix]
    /\ recording = FALSE
    /\ droppedIds = {}

\* ------------------------------------------------------------------------
\* Actions
\* ------------------------------------------------------------------------
\* Ndsp::init, first step: ServiceReference::new locks NDSP_ACTIVE
NdspInitLock(h) ==
    /\ pc[h] = "none"
    /\ mutex = 0
    /\ mutex' = h
    /\ pc' = [pc EXCEPT ![h] = "init_locked"]
    /\ UNCHANGED <<NDSP_ACTIVE, native, chanVars, dspVars, ret>>
    /\ UNCHANGED <<outputMode, mix, histVars>>

\* an Ndsp::init that builds the handle whatever ServiceReference::new returned
NdspInit_ignoresError(h) ==
    /\ pc[h] = "init_locked"
    /\ mutex = h
    /\ \E startOk \in BOOLEAN :
         LET r == ServiceReferenceNew(NDSP_ACTIVE, NdspExclusive, startOk)
         IN  /\ NDSP_ACTIVE' = r.counter
             /\ native' = IF r.start THEN NdspStart(native) ELSE native
             /\ outputMode' = IF r.start THEN ndspInitOutputMode ELSE outputMode
             /\ pc' = [pc EXCEPT ![h] = "live"]
             /\ ret' = Result("init", h, 0, 0, r.res, <<>>)
    /\ mutex' = 0
    /\ channel_flags' = [channel_flags EXCEPT ![h] = {}]
    /\ UNCHANGED <<channels, leaked, dspVars, mix, histVars>>

\* Ndsp::init, under the lock: count, start closure, unlock, build the handle
NdspInit(h) ==
    /\ pc[h] = "init_locked"
    /\ mutex = h
    /\ \E startOk \in BOOLEAN :
         LET r == ServiceReferenceNew(NDSP_ACTIVE, NdspExclusive, startOk)
         IN  /\ NDSP_ACTIVE' = r.counter
             /\ native' = IF r.start THEN NdspStart(native) ELSE native
             /\ outputMode' = IF r.start THEN ndspInitOutputMode ELSE outputMode
             /\ pc' = [pc EXCEPT ![h] = IF r.res = "Ok" THEN "live" ELSE "none"]
             /\ ret' = Result("init", h, 0, 0, r.res, <<>>)
    /\ mutex' = 0
    /\ channel_flags' = [channel_flags EXCEPT ![h] = {}]
    /\ UNCHANGED <<channels, leaked, dspVars, mix, histVars>>

\* Ndsp::channel(id)
NdspChannel(h, id) ==
    /\ pc[h] = "live"
    /\ LET c == channel(channel_flags[h], id)
       IN  /\ channel_flags' = [channel_flags EXCEPT ![h] = c.flags]
           /\ channels' = IF c.res = "Ok" THEN channels \cup {<<h, id>>}
                          ELSE channels
           /\ ret' = Result("channel", h, id, 0, c.res, c.err)
    /\ UNCHANGED <<svcVars, leaked, dspVars, outputMode, mix, histVars>>

\* a Channel handle goes out of scope
ChannelDrop(h, id) ==
    /\ <<h, id>> \in channels
    /\ SetDsp(ChannelDropDsp(Dsp, id))
    /\ channel_flags' = [channel_flags EXCEPT ![h] = ChannelDropFlags(@, id)]
    /\ channels' = channels \ {<<h, id>>}
    /\ ret' = Result("channel_drop", h, id, 0, "Ok", <<>>)
    /\ mix' = ndspChnResetMix(mix, id)
    /\ droppedIds' = IF recording THEN droppedIds \cup {id} ELSE droppedIds
    /\ UNCHANGED <<svcVars, leaked, outputMode, recording>>

\* std::mem::forget(channel): the handle is gone, its destructor never runs
ChannelForget(h, id) ==
    /\ <<h, id>> \in channels
    /\ channels' = channels \ {<<h, id>>}
    /\ leaked' = leaked \cup {<<h, id>>}
    /\ ret' = Result("channel_forget", 0, 0, 0, "Ok", <<>>)
    /\ UNCHANGED <<svcVars, channel_flags, dspVars, outputMode, mix, histVars>>

\* Channel::clear_queue
ClearQueue(h, id) ==
    /\ <<h, id>> \in channels
    /\ SetDsp(clear_queue(Dsp, id))
    /\ ret' = Result("clear_queue", h, id, 0, "Ok", <<>>)
    /\ UNCHANGED <<svcVars, chanVars, outputMode, mix, histVars>>

\* Channel::queue_wave(&mut wave)
QueueWave(h, id, w) ==
    /\ <<h, id>> \in channels
    /\ wave[w].alive
    /\ LET r == queue_wave(Dsp, id, w)
       IN  /\ SetDsp(r.dsp)
           /\ ret' = Result("queue_wave", h, id, w, r.res, r.err)
    /\ UNCHANGED <<svcVars, chanVars, outputMode, mix, histVars>>

\* a WaveInfo goes out of scope
WaveInfoDrop(w) ==
    /\ wave[w].alive
    /\ SetDsp(WaveInfoDropDsp(Dsp, w))
    /\ ret' = Result("wave_drop", 0, 0, 0,
                     IF wave[w].status \in {"Queued", "Playing"}
                     THEN "Cleared" ELSE "Ok", <<>>)
    /\ UNCHANGED <<svcVars, chanVars, outputMode, mix, histVars>>

\* the DSP, asynchronously: the playing buffer of a channel finishes
DspConsume(id) ==
    /\ native.active
    /\ hwQueue[id] # <<>>
    /\ SetDsp(dspFinishHead(Dsp, id))
    /\ ret' = Result("dsp", 0, 0, 0, "Ok", <<>>)
    /\ UNCHANGED <<svcVars, chanVars, outputMode, mix, histVars>>

\* an Ndsp handle goes out of scope: Drop::drop runs; the borrow checker
\* admits this only when no Channel of the handle is live. Nothing can
\* reach the flag array of the handle any more
NdspDrop(h) ==
    /\ pc[h] = "live"
    /\ \A c \in channels : c[1] # h
    /\ LET r == NdspDropLoop(Dsp, channel_flags[h])
       IN  /\ SetDsp(r.dsp)
           /\ ret' = Result("ndsp_drop", 0, 0, 0,
                            IF r.panicked THEN "Panic" ELSE "Ok", <<>>)
    /\ pc' = [pc EXCEPT ![h] = "dropped"]
    /\ channel_flags' = [channel_flags EXCEPT ![h] = {}]
    /\ leaked' = {l \in leaked : l[1] # h}
    /\ mix' = NdspDropMix(mix, channel_flags[h])
    /\ droppedIds' = IF recording
                     THEN droppedIds \cup
                            {c \in ChannelIds : \A i \in 0..c : i \notin channel_flags[h]}
                     ELSE droppedIds
    /\ UNCHANGED <<NDSP_ACTIVE, mutex, native, channels, outputMode, recording>>

\* the fields of the Ndsp are dropped: Drop for ServiceReference locks
ServiceDropLock(h) ==
    /\ pc[h] = "dropped"
    /\ mutex = 0
    /\ mutex' = h
    /\ pc' = [pc EXCEPT ![h] = "drop_locked"]
    /\ UNCHANGED <<NDSP_ACTIVE, native, chanVars, dspVars, ret>>
    /\ UNCHANGED <<outputMode, mix, histVars>>

\* Drop for ServiceReference under the lock
ServiceDrop(h) ==
    /\ pc[h] = "drop_locked"
    /\ mutex = h
    /\ LET r == ServiceReferenceDrop(NDSP_ACTIVE)
       IN  /\ NDSP_ACTIVE' = r.counter
           /\ native' = IF r.close THEN NdspClose(native) ELSE native
    /\ mutex' = 0
    /\ pc' = [pc EXCEPT ![h] = "none"]
    /\ UNCHANGED <<chanVars, dspVars, ret, outputMode, mix, histVars>>

\* Ndsp::set_output_mode(&mut self, mode): the exclusive borrow of the Ndsp
\* admits the call only when no Channel of the handle is live
SetOutputMode(h, mode) ==
    /\ pc[h] = "live"
    /\ \A c \in channels : c[1] # h
    /\ outputMode' = set_output_mode(mode)
    /\ ret' = Result("set_output_mode", h, 0, 0, "Ok", <<>>)
    /\ UNCHANGED <<svcVars, chanVars, dspVars, mix, histVars>>

\* a Channel::set_mix that also clears the queue of its channel
SetMix_clears(h, id, gains) ==
    /\ <<h, id>> \in channels
    /\ mix' = set_mix(mix, id, gains)
    /\ SetDsp(clear_queue(Dsp, id))
    /\ ret' = Result("set_mix", h, id, 0, "Ok", <<>>)
    /\ UNCHANGED <<svcVars, chanVars, outputMode, histVars>>

\* Channel::set_mix(&mix)
SetMix(h, id, gains) ==
    /\ <<h, id>> \in channels
    /\ mix' = set_mix(mix, id, gains)
    /\ ret' = Result("set_mix", h, id, 0, "Ok", <<>>)
    /\ UNCHANGED <<svcVars, chanVars, dspVars, outputMode, histVars>>

\* every step of the program, for the Ndsp handle slots HS and the wave
\* buffers WS the client works with
NextOver(HS, WS) ==
    \/ \E h \in HS : NdspInitLock(h)
    \/ \E h \in HS : NdspInit(h)
    \/ \E h \in HS, id \in IdInputs : NdspChannel(h, id)
    \/ \E h \in HS, id \in ValidInputs : ChannelDrop(h, id)
    \/ \E h \in HS, id \in ValidInputs : ChannelForget(h, id)
    \/ \E h \in HS, id \in ValidInputs : ClearQueue(h, id)
    \/ \E h \in HS, id \in ValidInputs, w \in WS : QueueWave(h, id, w)
    \/ \E w \in WS : WaveInfoDrop(w)
    \/ \E id \in ValidInputs : DspConsume(id)
    \/ \E h \in HS : NdspDrop(h)
    \/ \E h \in HS : ServiceDropLock(h)
    \/ \E h \in HS : ServiceDrop(h)

Next == NextOver(Handles, Waves)

Spec == Init /\ [][Next]_vars

\* the client works with every Ndsp handle slot and one wave buffer
NextChannel == NextOver(Handles, {1})

SpecChannel == Init /\ [][NextChannel]_vars

\* the client works with one Ndsp handle slot and every wave buffer
NextWave == NextOver({1}, Waves)

SpecWave == Init /\ [][NextWave]_vars

\* two Ndsp handle slots, one wave buffer and the output mode setter
NextOutput ==
    \/ NextOver(Handles, {1})
    \/ \E h \in Handles, mode \in OutputModes : SetOutputMode(h, mode)

SpecOutput == Init /\ [][NextOutput]_vars

\* the wave buffers of the specification of the mix setter
MixWaves == {1, MaxWaves}

\* one Ndsp handle slot, two wave buffers and the mix setter
NextMix ==
    \/ NextOver({1}, MixWaves)
    \/ \E id \in ValidInputs, gains \in MixInputs : SetMix(1, id, gains)

SpecMix == Init /\ [][NextMix]_vars

\* a client that takes the channels in ascending order of ID, as
\* `for i in 0..24 { held.push(ndsp.channel(i)?) }` does
ChannelInOrder(h, id) ==
    /\ \A i \in 0..(id - 1) : <<h, i>> \in channels
    /\ NdspChannel(h, id)

\* the same client releasing the handle it took last, as `held.pop()` does
ChannelDropLast(h, id) ==
    /\ \A i \in ChannelIds : i > id => <<h, i>> \notin channels
    /\ ChannelDrop(h, id)

\* one Ndsp handle slot, one wave buffer, and a client that may hold a
\* Channel for every ID
NextFlags ==
    \/ NextOver({1}, {1})
    \/ \E id \in ChannelIds : ChannelInOrder(1, id)
    \/ \E id \in ChannelIds : ChannelDropLast(1, id)

SpecFlags == Init /\ [][NextFlags]_vars

\* the initial state with the history of Channel drops switched on
InitRecording ==
    /\ NDSP_ACTIVE = 0
    /\ mutex = 0
    /\ native = [active |-> FALSE, last |-> "none", ok |-> TRUE]
    /\ pc = [h \in Handles |-> "none"]
    /\ channel_flags = [h \in Handles |-> {}]
    /\ channels = {}
    /\ leaked = {}
    /\ hwQueue = [c \in ChannelIds |-> <<>>]
    /\ wave = [w \in Waves |-> [status |-> "Free", played_on_channel |-> {}, alive |-> TRUE]]
    /\ ret = Result("none", 0, 0, 0, "Ok", <<>>)
    /\ outputMode = ndspInitOutputMode
    /\ mix = [c \in ChannelIds |-> DefaultMix]
    /\ recording = TRUE
    /\ droppedIds = {}

\* the steps of SpecChannel, with the history of Channel drops recorded
SpecReacquire == InitRecording /\ [][NextChannel]_vars

TypeOK ==
    /\ NDSP_ACTIVE \in 0..MaxNdsp
    /\ mutex \in {0} \cup Handles
    /\ pc \in [Handles -> {"none", "init_locked", "live", "dropped", "drop_locked"}]
    /\ \A h \in Handles : channel_flags[h] \subseteq ChannelIds
    /\ channels \subseteq Handles \X ChannelIds
    /\ \A w \in Waves : wave[w].status \in WaveStatus
    /\ outputMode \in OutputModes
    /\ \A c \in ChannelIds : mix[c] \in {DefaultMix} \cup MixInputs
    /\ recording \in BOOLEAN
    /\ droppedIds \subseteq ChannelIds

\* ------------------------------------------------------------------------
\* Properties
\* ------------------------------------------------------------------------
Busy == {"Queued", "Playing"}

\* the step is a call of `op`
Called(op) == ret' # ret /\ ret'.op = op

\* C1: in every reachable state there is at most one live Channel handle
\* per channel ID, counted over all live Ndsp handles
C1_OneChannelPerId ==
    \A id \in ChannelIds :
        Cardinality({h \in Handles : <<h, id>> \in channels}) <= 1

\* C2: every wave buffer a hardware queue references, and every buffer
\* whose status is Queued or Playing, is a live WaveInfo
C2_QueuedBuffersAlive ==
    \A w \in Waves :
        (wave[w].status \in Busy \/ \E c \in ChannelIds : w \in Range(hwQueue[c]))
            => wave[w].alive

\* a WaveInfo was destroyed while busy, its drop cleared the queue of its
\* owner, and a buffer of another queue is still playing
C2_Witness ==
    /\ ret.op = "wave_drop"
    /\ ret.res = "Cleared"
    /\ \E w \in Waves :
         /\ ~wave[w].alive
         /\ wave[w].played_on_channel # {}
         /\ \A c \in wave[w].played_on_channel : hwQueue[c] = <<>>
    /\ \E w \in Waves : wave[w].status = "Playing"

\* C3: queue_wave on a WaveInfo whose status is Playing or Queued returns
\* WaveBusy on every channel, and changes neither a hardware queue nor the
\* buffer's owner nor its status
C3_BusyWaveRejected ==
    [][(Called("queue_wave") /\ wave[ret'.w].status \in Busy)
          => /\ ret'.res = "WaveBusy"
             /\ hwQueue' = hwQueue
             /\ wave' = wave]_vars

\* queue_wave has just returned WaveBusy on a channel other than the one
\* the buffer is busy on
C3_Witness ==
    /\ ret.op = "queue_wave"
    /\ ret.res = "WaveBusy"
    /\ wave[ret.w].status \in Busy
    /\ ret.id \notin wave[ret.w].played_on_channel

C5_DroppedChannelReacquirable ==
    \A h \in Handles, id \in ChannelIds :
        (pc[h] = "live" /\ <<h, id>> \notin channels \cup leaked)
            => channel(channel_flags[h], id).res = "Ok"

\* a Channel handle has just been dropped and its slot can be acquired again
C5_Witness ==
    /\ ret.op = "channel_drop"
    /\ pc[ret.h] = "live"
    /\ <<ret.h, ret.id>> \notin channels \cup leaked
    /\ channel(channel_flags[ret.h], ret.id).res = "Ok"

\* C6: Ndsp::channel(id) with id in 24..255 returns InvalidChannel(id)
\* whatever channels are held, acquires no flag and changes no channel state
C6_InvalidChannelRejected ==
    [][(Called("channel") /\ ret'.id >= NUMBER_OF_CHANNELS)
          => /\ ret'.res = "InvalidChannel"
             /\ ret'.err = <<ret'.id>>
             /\ UNCHANGED <<channel_flags, channels, leaked, hwQueue, wave>>]_vars

\* Ndsp::channel(24) has just returned InvalidChannel(24) while channels
\* of that Ndsp are held
C6_Witness ==
    /\ ret.op = "channel"
    /\ ret.res = "InvalidChannel"
    /\ ret.id = NUMBER_OF_CHANNELS
    /\ ret.err = <<NUMBER_OF_CHANNELS>>
    /\ \E id \in ChannelIds : <<ret.h, id>> \in channels

\* C7: queue_wave on a WaveInfo whose status is Free or Done succeeds,
\* records the channel as the owner and appends the buffer to the queue of
\* the channel: Playing if the queue was empty, else Queued at the back
C7_IdleWaveQueued ==
    [][(Called("queue_wave") /\ wave[ret'.w].status \in {"Free", "Done"})
          => /\ ret'.res = "Ok"
             /\ wave'[ret'.w].played_on_channel = {ret'.id}
             /\ hwQueue'[ret'.id] = Append(hwQueue[ret'.id], ret'.w)
             /\ \A c \in ChannelIds \ {ret'.id} : hwQueue'[c] = hwQueue[c]
             /\ wave'[ret'.w].status =
                  IF hwQueue[ret'.id] = <<>> THEN "Playing" ELSE "Queued"]_vars

\* queue_wave has just succeeded on a non-empty queue: the buffer is owned
\* by the channel and Queued behind the buffer that is Playing
C7_Witness ==
    /\ ret.op = "queue_wave"
    /\ ret.res = "Ok"
    /\ wave[ret.w].status = "Queued"
    /\ wave[ret.w].played_on_channel = {ret.id}
    /\ Len(hwQueue[ret.id]) = 2
    /\ hwQueue[ret.id][2] = ret.w
    /\ wave[hwQueue[ret.id][1]].status = "Playing"

\* C8: buffers queued on one channel play in the order queued: in no step
\* does a buffer become (or stay) Playing while a buffer queued before it
\* on that channel has not reached Done
C8_FifoPlayback ==
    [][\A c \in ChannelIds : \A i, j \in 1..Len(hwQueue[c]) :
          (i < j /\ wave'[hwQueue[c][j]].status = "Playing")
              => wave'[hwQueue[c][i]].status = "Done"]_vars

\* three buffers were queued on channel 0 in the order 1, 2, 3: the first
\* is Done, the second is Playing, the third still Queued
C8_Witness ==
    /\ hwQueue[0] = <<2, 3>>
    /\ wave[1].status = "Done" /\ wave[1].played_on_channel = {0}
    /\ wave[2].status = "Playing"
    /\ wave[3].status = "Queued"

\* C9: the step in which an Ndsp handle is dropped leaves every hardware
\* queue empty and no wave buffer Playing or Queued
C9_NdspDropSilences ==
    [][(\E h \in Handles : pc[h] = "live" /\ pc'[h] = "dropped")
          => /\ \A c \in ChannelIds : hwQueue'[c] = <<>>
             /\ \A w \in Waves : wave'[w].status \notin Busy]_vars

\* the Ndsp handles that hold a service reference
Owners == {h \in Handles : pc[h] \in {"live", "dropped", "drop_locked"}}

\* C10: the native service is active exactly when the owner count is
\* nonzero, the count is the number of Ndsp handles holding a reference,
\* and ndspInit / ndspExit calls have alternated, starting with ndspInit
C10_ServiceActiveIffOwned ==
    /\ native.ok
    /\ native.active <=> (NDSP_ACTIVE # 0)
    /\ NDSP_ACTIVE = Cardinality(Owners)
    /\ native.active <=> (native.last = "init")

\* two owners share the active service while one thread holds the mutex
\* and a dropped Ndsp waits to release its reference
C10_Witness ==
    /\ NDSP_ACTIVE = 2
    /\ native.active
    /\ mutex # 0
    /\ \E h \in Handles : pc[h] = "dropped"

\* C11: an Ndsp::init that completes while another Ndsp instance is live
\* returns an error and creates no handle, so that at most one Ndsp instance
\* is live at any time.
C11_SingleNdsp ==
    [][\A h \in Handles :
          (/\ pc[h] = "init_locked"
           /\ pc'[h] # "init_locked"
           /\ \E g \in Handles \ {h} : pc[g] = "live")
          => (/\ ret'.res # "Ok"
              /\ pc'[h] = "none"
              /\ Cardinality({g \in Handles : pc'[g] = "live"}) <= 1)]_vars

\* C12: whenever Ndsp::channel(id) succeeds after a Channel handle for id
\* was dropped, channel id is not playing, its hardware queue is empty and no
\* buffer is Playing or Queued on it.
C12_ReacquiredChannelIdle ==
    [][(/\ Called("channel")
        /\ ret'.res = "Ok"
        /\ ret'.id \in droppedIds)
       => (/\ hwQueue'[ret'.id] = <<>>
           /\ \A w \in Waves :
                 wave'[w].status \in Busy => ret'.id \notin wave'[w].played_on_channel)]_vars

\* C13: immediately after every successful Ndsp::init the global output mode
\* is Stereo, whatever mode an earlier set_output_mode selected.
C13_InitLeavesStereo ==
    [][\A h \in Handles :
          (pc[h] = "init_locked" /\ pc'[h] = "live") => outputMode' = "Stereo"]_vars

\* C14: Channel::clear_queue succeeds and takes effect at once: after it
\* returns the queue of its channel is empty (the channel is not playing), no
\* buffer that was in that queue, and no buffer owned by that channel, is
\* Playing or Queued, and the queues and buffers of the other channels are
\* unchanged.
C14_ClearQueueEffect ==
    [][Called("clear_queue")
       => LET id == ret'.id
              cleared == Range(hwQueue[id])
          IN  /\ ret'.res = "Ok"
              /\ hwQueue'[id] = <<>>
              /\ \A w \in cleared : wave'[w].status \notin Busy
              /\ \A w \in Waves :
                    wave'[w].status \in Busy => id \notin wave'[w].played_on_channel
              /\ \A c \in ChannelIds \ {id} : hwQueue'[c] = hwQueue[c]
              /\ \A w \in Waves \ cleared : wave'[w] = wave[w]]_vars

\* a clear_queue has returned on a channel two buffers of which are Done,
\* while another channel still has a buffer in its queue
C14_Witness ==
    /\ ret.op = "clear_queue"
    /\ hwQueue[ret.id] = <<>>
    /\ Cardinality({w \in Waves : /\ wave[w].status = "Done"
                                  /\ wave[w].played_on_channel = {ret.id}}) >= 2
    /\ \E c \in ChannelIds \ {ret.id} : hwQueue[c] # <<>>

\* C15: when the native init function fails during Ndsp::init, the failure
\* is returned, no Ndsp handle is created, the owner count is unchanged and
\* the service is not active, so that the next ServiceReference::new runs the
\* init function again.
C15_FailedInitLeavesNoOwner ==
    [][\A h \in Handles :
          (/\ pc[h] = "init_locked"
           /\ pc'[h] # "init_locked"
           /\ ret'.res = "InitFailed")
          => (/\ ret'.op = "init" /\ ret'.h = h
              /\ pc'[h] = "none"
              /\ NDSP_ACTIVE' = NDSP_ACTIVE
              /\ ~native'.active
              /\ ServiceReferenceNew(NDSP_ACTIVE', NdspExclusive, TRUE).start)]_vars

\* an Ndsp::init has returned the failure of the native init function
C15_Witness ==
    /\ ret.op = "init"
    /\ ret.res = "InitFailed"
    /\ pc[ret.h] = "none"
    /\ NDSP_ACTIVE = 0
    /\ ~native.active

\* C17: the destruction of an Ndsp acquires every channel ID 0..23 whatever
\* the state of its exclusivity flag, never aborts part-way, and leaves all 24
\* hardware queues empty.
C17_NdspDropClearsAll ==
    [][\A h \in Handles :
          (pc[h] = "live" /\ pc'[h] = "dropped")
          => (/\ ret'.op = "ndsp_drop"
              /\ ret'.res = "Ok"
              /\ \A c \in ChannelIds : hwQueue'[c] = <<>>)]_vars

\* C18: the native service exit happens only after the queues of all 24
\* channels were cleared, and no channel queue changes while the service is
\* not active.
C18_ClearsBeforeExit ==
    [][/\ (native.active /\ ~native'.active)
          => (/\ \A c \in ChannelIds : hwQueue[c] = <<>>
              /\ \A w \in Waves : wave[w].status \notin Busy)
       /\ (~native.active /\ ~native'.active) => hwQueue' = hwQueue]_vars

\* C19: a wave buffer whose status is Queued or Playing records as its owner
\* exactly the one channel whose hardware queue contains it.
C19_OwnerIsQueueHolder ==
    \A w \in Waves :
        wave[w].status \in Busy
        => \E c \in ChannelIds :
              /\ wave[w].played_on_channel = {c}
              /\ {d \in ChannelIds : w \in Range(hwQueue[d])} = {c}

\* two buffers are busy on two different channels, each recording its own
\* channel, and the last call queued a buffer that is now in that channel's
\* queue
C19_Witness ==
    /\ ret.op = "queue_wave"
    /\ ret.res = "Ok"
    /\ ret.w \in Range(hwQueue[ret.id])
    /\ wave[ret.w].played_on_channel = {ret.id}
    /\ \E v \in Waves \ {ret.w} :
          /\ wave[v].status \in Busy
          /\ wave[v].played_on_channel # {ret.id}

\* C20: a wave buffer appears in at most one channel's hardware queue, and at
\* most once in that queue.
C20_QueuedAtMostOnce ==
    \A w \in Waves :
        /\ Cardinality({c \in ChannelIds : w \in Range(hwQueue[c])}) <= 1
        /\ \A c \in ChannelIds :
              Cardinality({i \in DOMAIN hwQueue[c] : hwQueue[c][i] = w}) <= 1

\* a queue_wave of a buffer that is already in a hardware queue was refused,
\* with buffers in the queues of two channels
C20_Witness ==
    /\ ret.op = "queue_wave"
    /\ ret.res = "WaveBusy"
    /\ \E c \in ChannelIds : ret.w \in Range(hwQueue[c])
    /\ Cardinality({c \in ChannelIds : hwQueue[c] # <<>>}) >= 2

\* C16: Channel::set_mix changes the gains of its channel only: the
\* hardware queues (so whether a channel is playing, and the order of its
\* buffers), the status of every buffer and the mixes of the other channels
\* are as they were.
C16_SetMixKeepsQueue ==
    [][Called("set_mix")
       => (/\ hwQueue' = hwQueue
           /\ wave' = wave
           /\ \A c \in ChannelIds \ {ret'.id} : mix'[c] = mix[c])]_vars

\* set_mix with twelve zero gains has returned on a channel that is playing
\* one buffer and has a second one queued behind it
C16_Witness ==
    /\ ret.op = "set_mix"
    /\ mix[ret.id] = ZeroMix
    /\ Len(hwQueue[ret.id]) >= 2
    /\ wave[hwQueue[ret.id][1]].status = "Playing"
    /\ wave[hwQueue[ret.id][2]].status = "Queued"

\* C21: when Channel::queue_wave fails with WaveBusy(id), id is the channel
\* on which the buffer is queued or playing: the channel the buffer records
\* and whose hardware queue holds it, whichever channel the call was made on.
C21_WaveBusyNamesBusyChannel ==
    [][(Called("queue_wave") /\ ret'.res = "WaveBusy")
       => (/\ Len(ret'.err) = 1
           /\ wave[ret'.w].played_on_channel = {ret'.err[1]}
           /\ ret'.w \in Range(hwQueue[ret'.err[1]]))]_vars

\* C22: the exclusivity flags of one Ndsp handle are independent: a call of
\* Ndsp::channel(i) succeeds exactly when the flag of i is free, whatever other
\* channels are held, and neither that call nor the drop of the Channel for i
\* changes what Ndsp::channel(j) would return for any j other than i.
C22_FlagsIndependent ==
    [][(Called("channel") \/ Called("channel_drop"))
       => LET h == ret'.h
              i == ret'.id
          IN  /\ \A j \in ChannelIds \ {i} :
                    channel(channel_flags'[h], j).res = channel(channel_flags[h], j).res
              /\ (ret'.op = "channel" /\ i \in ChannelIds)
                    => (ret'.res = "Ok" <=> i \notin channel_flags[h])]_vars

\* one Ndsp handle holds the Channels of all 24 IDs at the same time, the
\* last of them just acquired
C22_Witness ==
    /\ ret.op = "channel"
    /\ ret.res = "Ok"
    /\ channel_flags[ret.h] = ChannelIds
    /\ Cardinality({c \in channels : c[1] = ret.h}) = NUMBER_OF_CHANNELS

====
